---- MODULE Spec2Model ----
(***************************************************************************)
(* A model of mosmeh/fifteen: the sliding-tile puzzle of src/board.rs and  *)
(* the controller of src/main.rs.                                          *)
(*                                                                         *)
(* Positions and tile values are 0-based as in the source: `tiles` is a    *)
(* function on 0 .. board_size^2 - 1 (a Vec<usize>), position i lies in    *)
(* column i % board_size and row i / board_size.                           *)
(***************************************************************************)
EXTENDS Integers, Sequences, FiniteSets, TLC

VARIABLES
    board_size,   \* Board.board_size / BoardBuilder.board_size / Opt.n
    tiles,        \* Board.tiles (the local `tiles` of generate_tiles before that)
    pc,           \* position of the program
    op,           \* the last Board method called: "none", "move_tiles", "is_solved"
    direction,    \* the Direction given to the last move_tiles call
    ret,          \* what the last move_tiles call returned: None or Some((a, b))
    old_tiles,    \* tiles as they were when the last method was called
    solved_ret,   \* what the last is_solved call returned
    first_ret,    \* SpecUndo: what the first move_tiles call of the pair returned
    visited,      \* SpecSolve: the permutations reached from the solved one so far
    frontier,     \* SpecSolve: those of them whose moves are still to be taken
    reach,        \* SpecSolve: the solved permutation is reachable from tiles
    back,         \* SpecSolve: every legal move from tiles has a legal move back
    term_size,    \* BoardBuilder.terminal_size: (columns, rows)
    img_size,     \* Board.img_size
    thread,       \* the input thread has been spawned
    chan,         \* the events sent on tx and not yet received from rx
    nread,        \* the number of event::read() calls the input thread has made
    raw_mode,     \* the terminal is in raw mode
    cursor_hidden,\* the terminal has received cursor::Hide and no cursor::Show since
    setup_ok,     \* setup_terminal has returned Ok
    cleaned,      \* cleanup_terminal has been called
    exit_code,    \* of the process: "none" while it runs, then "ok", "error" or "panic"
    sent,         \* history: the events the input thread has sent, in order
    handled,      \* history: the events the loop has received, in order
    applied,      \* history: the directions the loop has passed to move_and_draw_tiles
    start_tiles,  \* history: the tiles of the board when main starts the input thread
    build_ret,    \* what build has returned: "none" before, "Ok", an error, or "panic"
    img_pixels,   \* Board.img_pixels: the colour of pixel (x, y) at x + y * img_size
    out,          \* the commands the last call queued on the writer, in order
    drawn,        \* the indexes the last call passed to draw_tile, in order
    screen,       \* the terminal: its character cells, cursor and current colours
    buf           \* Stdout's buffer: the commands queued that the terminal has not
                  \* received whole, and the bytes of the first it has received

boardVars == <<board_size, tiles, pc>>
callVars == <<op, direction, ret, old_tiles, solved_ret, first_ret>>
solveVars == <<visited, frontier, reach, back>>
logVars == <<sent, handled, applied, start_tiles>>
drawVars == <<img_pixels, out, drawn, screen, buf>>
mainVars == <<term_size, img_size, thread, chan, nread, raw_mode, cursor_hidden,
              setup_ok, cleaned, exit_code, logVars, build_ret, drawVars>>
vars == <<board_size, tiles, pc, op, direction, ret, old_tiles, solved_ret, first_ret,
          visited, frontier, reach, back,
          term_size, img_size, thread, chan, nread, raw_mode, cursor_hidden,
          setup_ok, cleaned, exit_code,
          sent, handled, applied, start_tiles, build_ret,
          img_pixels, out, drawn, screen, buf>>

(***************************************************************************)
(* Bounds.  The board sizes explored exhaustively: 2 (even) and 3 (odd).   *)
(* A 4 x 4 board has 16!/2 reachable permutations, out of reach of an      *)
(* explicit-state check.                                                   *)
(***************************************************************************)
BoardSizes == {2, 3}

Directions == {"Up", "Down", "Left", "Right"}

None == <<>>
Some(a, b) == <<a, b>>

Positions(n) == 0 .. (n * n - 1)

\* (0..n * n).collect(): the identity permutation
collect(n) == [i \in Positions(n) |-> i]

\* every Vec<usize> of length n^2 that is a rearrangement of 0 .. n^2 - 1
Perms(n) == Permutations(Positions(n))

blank_tile_num(n) == n * n - 1

\* tiles.iter().position(|t| *t == x): the first index holding x
position(t, x) ==
    CHOOSE i \in {k \in DOMAIN t : t[k] = x} : \A j \in {k \in DOMAIN t : t[k] = x} : i <= j

\* a swap that forgets to write the second entry
swap_overwrite(t, a, b) == [t EXCEPT ![a] = t[b]]

\* slice::swap
swap(t, a, b) == [t EXCEPT ![a] = t[b], ![b] = t[a]]

\* any() where the code has all()
is_solved_any(t) == \E i \in DOMAIN t : i = t[i]

is_solved(t) == \A i \in DOMAIN t : i = t[i]

\* the number of b in tiles[i + 1..] that are not the blank and smaller than tiles[i]
smaller_after(n, t, i) ==
    Cardinality({j \in (i + 1) .. (n * n - 1) : t[j] # blank_tile_num(n) /\ t[j] < t[i]})

RECURSIVE fold_inversions(_, _, _)
fold_inversions(n, t, i) ==
    IF i >= n * n THEN 0
    ELSE (IF t[i] # blank_tile_num(n) THEN smaller_after(n, t, i) ELSE 0)
         + fold_inversions(n, t, i + 1)

inversions(n, t) == fold_inversions(n, t, 0)

xor(a, b) == a # b

\* the parity of the inversions alone, whatever the row of the blank
is_solvable_no_row(n, t) == inversions(n, t) % 2 = 0

is_solvable(n, t) ==
    IF n % 2 = 0
    THEN LET blank_tile == position(t, blank_tile_num(n))
             blank_row == n - (blank_tile \div n)
         IN xor(blank_row % 2 = 0, inversions(n, t) % 2 = 0)
    ELSE inversions(n, t) % 2 = 0

\* no rejection loop: the first shuffle is returned
needs_reshuffle_never(n, t) == FALSE

\* the while condition of generate_tiles
needs_reshuffle(n, t) == ~is_solvable(n, t)

\* the offsets of the blank moving the way the key points
offset_screen(d) ==
    CASE d = "Up" -> <<0, -1>>
      [] d = "Down" -> <<0, 1>>
      [] d = "Left" -> <<-1, 0>>
      [] d = "Right" -> <<1, 0>>

\* Right given the offset of Left
offset_right_as_left(d) ==
    CASE d = "Up" -> <<0, 1>>
      [] d = "Down" -> <<0, -1>>
      [] d = "Left" -> <<1, 0>>
      [] d = "Right" -> <<1, 0>>

\* Up moving the blank along the diagonal
offset_up_diagonal(d) ==
    CASE d = "Up" -> <<1, 1>>
      [] d = "Down" -> <<0, -1>>
      [] d = "Left" -> <<1, 0>>
      [] d = "Right" -> <<-1, 0>>

\* (dx, dy) of a direction
offset(d) ==
    CASE d = "Up" -> <<0, 1>>
      [] d = "Down" -> <<0, -1>>
      [] d = "Left" -> <<1, 0>>
      [] d = "Right" -> <<-1, 0>>

movable(n, dest) == 0 <= dest /\ dest < n

\* move_tiles returning the two positions in the other order
move_tiles_ret_swapped(n, t, d) ==
    LET blank_tile == position(t, blank_tile_num(n))
        dest_x == (blank_tile % n) + offset(d)[1]
        dest_y == (blank_tile \div n) + offset(d)[2]
    IN  IF movable(n, dest_x) /\ movable(n, dest_y)
        THEN [tiles |-> swap(t, blank_tile, dest_x + dest_y * n),
              ret |-> Some(dest_x + dest_y * n, blank_tile)]
        ELSE [tiles |-> t, ret |-> None]

\* move_tiles testing the row-major index of the destination, not each axis
move_tiles_flat_check(n, t, d) ==
    LET blank_tile == position(t, blank_tile_num(n))
        dest_tile == blank_tile + offset(d)[1] + offset(d)[2] * n
    IN  IF 0 <= dest_tile /\ dest_tile < n * n
        THEN [tiles |-> swap(t, blank_tile, dest_tile),
              ret |-> Some(blank_tile, dest_tile)]
        ELSE [tiles |-> t, ret |-> None]

\* Board::move_tiles: the tiles after the call and the value returned
move_tiles(n, t, d) ==
    LET blank_tile == position(t, blank_tile_num(n))
        blank_x == blank_tile % n
        blank_y == blank_tile \div n
        dest_x == blank_x + offset(d)[1]
        dest_y == blank_y + offset(d)[2]
        movable_x == movable(n, dest_x)
        movable_y == movable(n, dest_y)
    IN  IF movable_x /\ movable_y
        THEN LET dest_tile == dest_x + dest_y * n
             IN  [tiles |-> swap(t, blank_tile, dest_tile),
                  ret |-> Some(blank_tile, dest_tile)]
        ELSE [tiles |-> t, ret |-> None]

opposite(d) ==
    CASE d = "Up" -> "Down"
      [] d = "Down" -> "Up"
      [] d = "Left" -> "Right"
      [] d = "Right" -> "Left"

(***************************************************************************)
(* tiles.shuffle(&mut rng), lines 277 and 279, yields any permutation of   *)
(* the tiles, the order it was given included.  The rejection loop is      *)
(* explored for the board sizes of GenerateSizes, where every re-shuffle   *)
(* of every rejected permutation is enumerable.  What generate_tiles can   *)
(* return is any permutation the loop condition of line 278 lets through;  *)
(* a larger board starts as one of these, the solved one or one of two     *)
(* others, and the move_tiles calls that follow reach every other of them. *)
(***************************************************************************)
GenerateSizes == {2}

BuiltBoards(n) == { p \in Perms(n) : ~needs_reshuffle(n, p) }

\* tiles of a built board: the solved one and two others, the solved one
\* with the blank taken around its corner by two moves and by three
TileSamples(n) ==
    LET last == n * n - 1
    IN  { collect(n),
          [collect(n) EXCEPT ![last] = last - n, ![last - n] = last - n - 1,
                             ![last - n - 1] = last],
          [collect(n) EXCEPT ![last] = last - 1, ![last - 1] = last - 1 - n,
                             ![last - 1 - n] = last - n, ![last - n] = last] }

\* the boards a run of a larger size starts with
StartBoards(n) == TileSamples(n) \cap BuiltBoards(n)

\* the variables of the other specifications, at rest
SolveIdle ==
    /\ visited = {}
    /\ frontier = {}
    /\ reach = FALSE
    /\ back = FALSE

LogIdle ==
    /\ sent = <<>>
    /\ handled = <<>>
    /\ applied = <<>>
    /\ start_tiles = <<>>

\* nothing loaded, nothing written
DrawIdle ==
    /\ img_pixels = <<>>
    /\ out = <<>>
    /\ drawn = <<>>
    /\ screen = <<>>
    /\ buf = [commands |-> <<>>, written |-> 0]

MainIdle ==
    /\ term_size = <<80, 24>>
    /\ img_size = 0
    /\ thread = FALSE
    /\ chan = <<>>
    /\ nread = 0
    /\ raw_mode = FALSE
    /\ cursor_hidden = FALSE
    /\ setup_ok = FALSE
    /\ cleaned = FALSE
    /\ exit_code = "none"
    /\ LogIdle
    /\ build_ret = "none"
    /\ DrawIdle

\* generate_tiles, line 277: the first shuffle
Shuffle ==
    /\ pc = "shuffle"
    /\ \E p \in Perms(board_size) : tiles' = p /\ old_tiles' = p
    /\ pc' = "check"
    /\ UNCHANGED <<board_size, op, direction, ret, solved_ret, first_ret>>
    /\ UNCHANGED <<solveVars, mainVars>>

\* generate_tiles, lines 278-280: a rejected permutation is shuffled again
Reshuffle ==
    /\ pc = "check"
    /\ needs_reshuffle(board_size, tiles)
    /\ \E p \in Perms(board_size) : tiles' = p /\ old_tiles' = p
    /\ UNCHANGED <<board_size, pc, op, direction, ret, solved_ret, first_ret>>
    /\ UNCHANGED <<solveVars, mainVars>>

\* generate_tiles, lines 278 and 281: the loop ends and the tiles are returned
GenerateReturn ==
    /\ pc = "check"
    /\ ~needs_reshuffle(board_size, tiles)
    /\ pc' = "assert"
    /\ UNCHANGED <<board_size, tiles>>
    /\ UNCHANGED callVars
    /\ UNCHANGED <<solveVars, mainVars>>

\* BoardBuilder::build, line 198: assert!(is_solvable(..)), then the Board
BuildAssert ==
    /\ pc = "assert"
    /\ pc' = IF is_solvable(board_size, tiles) THEN "ready" ELSE "panic"
    /\ exit_code' = IF is_solvable(board_size, tiles) THEN exit_code ELSE "panic"
    /\ build_ret' = IF is_solvable(board_size, tiles) THEN "Ok" ELSE "panic"
    /\ UNCHANGED <<board_size, tiles>>
    /\ UNCHANGED callVars
    /\ UNCHANGED solveVars
    /\ UNCHANGED <<term_size, img_size, thread, chan, nread, raw_mode, cursor_hidden,
                   setup_ok, cleaned>>
    /\ UNCHANGED logVars
    /\ UNCHANGED drawVars

\* a call of Board::move_tiles
MoveTiles(d) ==
    /\ pc = "ready"
    /\ \E r \in {move_tiles(board_size, tiles, d)} :
           /\ tiles' = r.tiles
           /\ ret' = r.ret
    /\ op' = "move_tiles"
    /\ direction' = d
    /\ old_tiles' = tiles
    /\ solved_ret' = FALSE
    /\ UNCHANGED <<board_size, pc, first_ret>>
    /\ UNCHANGED <<solveVars, mainVars>>

\* a call of Board::is_solved
IsSolved ==
    /\ pc = "ready"
    /\ op' = "is_solved"
    /\ solved_ret' = is_solved(tiles)
    /\ old_tiles' = tiles
    /\ direction' = "none"
    /\ ret' = None
    /\ UNCHANGED <<board_size, tiles, pc, first_ret>>
    /\ UNCHANGED <<solveVars, mainVars>>

\* BoardBuilder::build at line 197 for a board size of GenerateSizes, and
\* the Board that build returns at line 200 for the others
Init ==
    /\ board_size \in BoardSizes
    /\ IF board_size \in GenerateSizes
       THEN /\ tiles = collect(board_size)
            /\ pc = "shuffle"
            /\ build_ret = "none"
       ELSE /\ tiles \in StartBoards(board_size)
            /\ pc = "ready"
            /\ build_ret = "Ok"
    /\ old_tiles = tiles
    /\ op = "none"
    /\ direction = "none"
    /\ ret = None
    /\ solved_ret = FALSE
    /\ first_ret = None
    /\ SolveIdle
    /\ term_size = <<80, 24>>
    /\ img_size = 0
    /\ thread = FALSE
    /\ chan = <<>>
    /\ nread = 0
    /\ raw_mode = FALSE
    /\ cursor_hidden = FALSE
    /\ setup_ok = FALSE
    /\ cleaned = FALSE
    /\ exit_code = "none"
    /\ LogIdle
    /\ DrawIdle

Next ==
    \/ Shuffle
    \/ Reshuffle
    \/ GenerateReturn
    \/ BuildAssert
    \/ \E d \in Directions : MoveTiles(d)
    \/ IsSolved

Spec == Init /\ [][Next]_vars

(***************************************************************************)
(* SpecUndo: from any permutation, one move_tiles call and then a call     *)
(* with the opposite direction.  old_tiles keeps the permutation before    *)
(* the pair, first_ret what the first call returned.                       *)
(***************************************************************************)
InitUndo ==
    /\ board_size \in BoardSizes
    /\ tiles \in Perms(board_size)
    /\ old_tiles = tiles
    /\ pc = "first"
    /\ op = "none"
    /\ direction = "none"
    /\ ret = None
    /\ solved_ret = FALSE
    /\ first_ret = None
    /\ SolveIdle
    /\ MainIdle

MoveFirst(d) ==
    /\ pc = "first"
    /\ LET r == move_tiles(board_size, tiles, d)
       IN  /\ tiles' = r.tiles
           /\ ret' = r.ret
           /\ first_ret' = r.ret
    /\ op' = "move_tiles"
    /\ direction' = d
    /\ pc' = "second"
    /\ UNCHANGED <<board_size, old_tiles, solved_ret>>
    /\ UNCHANGED <<solveVars, mainVars>>

MoveOpposite ==
    /\ pc = "second"
    /\ LET r == move_tiles(board_size, tiles, opposite(direction))
       IN  /\ tiles' = r.tiles
           /\ ret' = r.ret
    /\ direction' = opposite(direction)
    /\ pc' = "undone"
    /\ UNCHANGED <<board_size, op, old_tiles, solved_ret, first_ret>>
    /\ UNCHANGED <<solveVars, mainVars>>

NextUndo ==
    \/ \E d \in Directions : MoveFirst(d)
    \/ MoveOpposite

SpecUndo == InitUndo /\ [][NextUndo]_vars

(***************************************************************************)
(* SpecSolve: which permutations can be solved.  The set of permutations   *)
(* reached from the solved one by legal move_tiles calls is built level by *)
(* level (Expand takes every legal move from every permutation of the      *)
(* frontier); once it is closed, Probe takes any permutation p and records *)
(* whether p is in it and whether every legal move from p has a legal move *)
(* back to p.  When `back` holds of every permutation the moves are        *)
(* symmetric, and then p is reached from the solved permutation exactly    *)
(* when the solved permutation is reached from p.                          *)
(***************************************************************************)
\* the permutations one legal move_tiles call away from p
Moves(n, p) ==
    { r.tiles : r \in { m \in { move_tiles(n, p, d) : d \in Directions } : m.ret # None } }

\* a permutation as one number, its entries the digits in base n^2 (the sets
\* of SpecSolve hold these numbers), and back
RECURSIVE EncodeFrom(_, _, _)
EncodeFrom(n, t, i) ==
    IF i >= n * n THEN 0 ELSE t[i] + (n * n) * EncodeFrom(n, t, i + 1)

Encode(n, t) == EncodeFrom(n, t, 0)

Decode(n, c) == [i \in Positions(n) |-> (c \div ((n * n) ^ i)) % (n * n)]

InitSolve ==
    /\ board_size \in BoardSizes
    /\ tiles = collect(board_size)
    /\ old_tiles = collect(board_size)
    /\ pc = "expand"
    /\ op = "none"
    /\ direction = "none"
    /\ ret = None
    /\ solved_ret = FALSE
    /\ first_ret = None
    /\ visited = {}
    /\ frontier = {Encode(board_size, collect(board_size))}
    /\ reach = FALSE
    /\ back = FALSE
    /\ MainIdle

\* a move_tiles call that is not legal returns the permutation it was given,
\* which is in the frontier and so not in the next one
Expand ==
    /\ pc = "expand"
    /\ frontier # {}
    /\ visited' = visited \cup frontier
    /\ frontier' = { c \in { Encode(board_size,
                                    move_tiles(board_size, Decode(board_size, p), d).tiles) :
                             p \in frontier, d \in Directions } :
                        c \notin visited /\ c \notin frontier }
    /\ UNCHANGED <<boardVars, callVars, reach, back, mainVars>>

Closed ==
    /\ pc = "expand"
    /\ frontier = {}
    /\ pc' = "closed"
    /\ UNCHANGED <<board_size, tiles, callVars, solveVars, mainVars>>

Probe ==
    /\ pc = "closed"
    /\ \E p \in Perms(board_size) :
           /\ tiles' = p
           /\ old_tiles' = p
           /\ reach' = (Encode(board_size, p) \in visited)
           /\ back' = \A q \in Moves(board_size, p) : p \in Moves(board_size, q)
    /\ solved_ret' = is_solved(tiles')
    /\ visited' = {}
    /\ pc' = "probed"
    /\ UNCHANGED <<board_size, op, direction, ret, first_ret, frontier, mainVars>>

NextSolve ==
    \/ Expand
    \/ Closed
    \/ Probe

SpecSolve == InitSolve /\ [][NextSolve]_vars

(***************************************************************************)
(* The writer.  A colour is Color::Reset (a transparent pixel) or an opaque *)
(* Color::Rgb, of which two stand for all.  A command is what one           *)
(* crossterm::queue! argument puts on the writer, as <<kind, a, b, s>>.     *)
(***************************************************************************)
Palette == {"Reset", "red", "blue"}

MoveTo(x, y) == <<"MoveTo", x, y, "">>
ResetColor == <<"ResetColor", 0, 0, "">>
SetForegroundColor(c) == <<"SetForegroundColor", 0, 0, c>>
SetBackgroundColor(c) == <<"SetBackgroundColor", 0, 0, c>>
\* style::Print(glyph.repeat(len)); the glyphs are " ", "lower_half" and "upper_half"
print_repeat(glyph, len) == <<"Print", len, 0, glyph>>
\* terminal::Clear(ClearType::All), cursor::Hide and cursor::Show
Clear == <<"Clear", 0, 0, "">>
Hide == <<"Hide", 0, 0, "">>
Show == <<"Show", 0, 0, "">>
\* w.flush(): no bytes of its own
Flush == <<"Flush", 0, 0, "">>

(***************************************************************************)
(* The bytes of a command.  queue! formats a command onto the writer piece *)
(* by piece, each piece one write_all: the literal parts of the escape     *)
(* sequence and each number in decimal.  ESC [ row ; column H moves the    *)
(* cursor (row and column from 1), ESC [ 0 m resets the colours, ESC [ 39  *)
(* m and ESC [ 49 m set the default foreground and background, ESC [ 38 ;  *)
(* 2 ; r ; g ; b m and ESC [ 48 ; ... m an Rgb one, ESC [ 2 J clears, ESC  *)
(* [ ? 25 l and ESC [ ? 25 h hide and show the cursor.  A Print is its     *)
(* string, one piece.                                                      *)
(***************************************************************************)
\* the Rgb values of the two opaque colours
rgb(c) == IF c = "red" THEN <<255, 0, 0>> ELSE <<0, 0, 255>>

\* the length of v in decimal (v is a u8 or a u16 plus one)
digits(v) ==
    IF v < 10 THEN 1 ELSE IF v < 100 THEN 2 ELSE IF v < 1000 THEN 3
    ELSE IF v < 10000 THEN 4 ELSE 5

\* the bytes of a glyph in UTF-8: one for a space, three for a half block
glyph_bytes(glyph) == IF glyph = " " THEN 1 ELSE 3

\* the pieces of a colour: "39" or "49", or "38;" or "48;", "2;", r, ";", g, ";", b
colour_pieces(c) ==
    IF c = "Reset" THEN <<2>>
    ELSE <<3, 2, digits(rgb(c)[1]), 1, digits(rgb(c)[2]), 1, digits(rgb(c)[3])>>

\* the lengths in bytes of the pieces queue! writes for cmd, in order
pieces(cmd) ==
    CASE cmd[1] = "MoveTo" -> <<2, digits(cmd[3] + 1), 1, digits(cmd[2] + 1), 1>>
      [] cmd[1] = "ResetColor" -> <<4>>
      [] cmd[1] \in {"SetForegroundColor", "SetBackgroundColor"} ->
           <<2>> \o colour_pieces(cmd[4]) \o <<1>>
      [] cmd[1] = "Print" -> <<cmd[2] * glyph_bytes(cmd[4])>>
      [] cmd[1] = "Clear" -> <<4>>
      [] cmd[1] \in {"Hide", "Show"} -> <<6>>
      [] cmd[1] = "Flush" -> <<>>

RECURSIVE sum(_)
sum(lens) == IF lens = <<>> THEN 0 ELSE Head(lens) + sum(Tail(lens))

bytes(cmd) == sum(pieces(cmd))

\* entry k is the number of bytes of the first k commands of cmds (the two
\* halves of the list are summed apart and joined)
RECURSIVE command_ends(_)
command_ends(cmds) ==
    IF cmds = <<>> THEN <<>>
    ELSE IF Len(cmds) = 1 THEN <<bytes(cmds[1])>>
    ELSE CHOOSE all \in
             { left \o [k \in 1 .. Len(right) |-> right[k] + left[Len(left)]] :
               left \in {command_ends(SubSeq(cmds, 1, Len(cmds) \div 2))},
               right \in {command_ends(SubSeq(cmds, Len(cmds) \div 2 + 1, Len(cmds)))} } :
             TRUE

\* the bytes of the first k commands, given the entries of command_ends
bytes_before(ends, k) == IF k = 0 THEN 0 ELSE ends[k]

(***************************************************************************)
(* Stdout.  io::stdout() of line 96 is a LineWriter whose buffer holds     *)
(* BufferCapacity bytes; the program writes no newline, so a piece is      *)
(* appended to the buffer when it fits the free space; when it does not,   *)
(* the buffer is written to the terminal first, and a piece as long as the *)
(* buffer is written to the terminal itself.  flush() writes the buffer to *)
(* the terminal.  When the process exits, whether main returned Ok or Err, *)
(* what is left in the buffer is written too and a failure of that write   *)
(* is ignored.                                                             *)
(*                                                                         *)
(* The stream is the list of commands the terminal has not received whole; *)
(* positions in it are byte offsets from the start of its first command.   *)
(***************************************************************************)
BufferCapacity == 1024

EmptyBuffer == [commands |-> <<>>, written |-> 0]

\* the pieces of the commands of stream after the first `from` commands,
\* each with the command it belongs to and the offsets where it starts and ends
new_pieces(stream, ends, from) ==
    UNION { { [cmd |-> k,
               start |-> bytes_before(ends, k - 1)
                             + sum(SubSeq(pieces(stream[k]), 1, j - 1)),
               end |-> bytes_before(ends, k - 1)
                           + sum(SubSeq(pieces(stream[k]), 1, j))] :
              j \in 1 .. Len(pieces(stream[k])) } :
            k \in (from + 1) .. Len(stream) }

\* the writes to the terminal made while the pieces ps are queued, the
\* terminal having received `got` bytes of the stream: for each, the command
\* being queued, the bytes received before it, the bytes received when it
\* succeeds, and the most the terminal can have received when it fails
RECURSIVE spills(_, _)
spills(ps, got) ==
    LET over == { p \in ps : /\ p.start >= got
                             /\ \/ p.end - got > BufferCapacity
                                \/ p.end - p.start >= BufferCapacity }
    IN  IF over = {} THEN <<>>
        ELSE LET p == CHOOSE q \in over : \A o \in over : q.start <= o.start
                 direct == p.end - p.start >= BufferCapacity
             IN  <<[cmd |-> p.cmd, from |-> got,
                    reach |-> IF direct THEN p.end ELSE p.start,
                    fail_to |-> IF direct THEN p.end - 1 ELSE p.start]>>
                 \o spills(ps, IF direct THEN p.end ELSE p.start)

\* the buffer that holds the stream of which the terminal has received `got` bytes
rest(stream, ends, got) ==
    LET whole == Cardinality({ k \in DOMAIN ends : ends[k] <= got })
    IN  [commands |-> SubSeq(stream, whole + 1, Len(stream)),
         written |-> got - bytes_before(ends, whole)]

\* queue!(w, cmds..) on the buffer b: the stream, the ends of its commands,
\* the writes to the terminal it makes, and the bytes of the stream the
\* terminal has received when every write succeeded
queue(b, cmds) ==
    LET stream == b.commands \o cmds
        ends == command_ends(stream)
        writes == IF bytes_before(ends, Len(stream)) - b.written < BufferCapacity
                  THEN <<>>
                  ELSE spills(new_pieces(stream, ends, Len(b.commands)), b.written)
    IN  [stream |-> stream, ends |-> ends, writes |-> writes,
         got |-> IF writes = <<>> THEN b.written ELSE writes[Len(writes)].reach]

\* the numbers of glyphs shown when the bytes of cmd stop after some byte
\* from the a-th to the b-th, short of its last
partials(cmd, a, b) ==
    LET some == { o \in 1 .. (bytes(cmd) - 1) : a <= o /\ o <= b }
    IN  IF cmd[1] = "Print" THEN { o \div glyph_bytes(cmd[4]) : o \in some }
        ELSE IF some = {} THEN {} ELSE {0}

\* where the bytes the terminal has received can stop between the offsets lo
\* and hi of the stream: after `whole` commands, with nothing of the next one
\* (part -1) or with some of its bytes, part of its glyphs being shown
cuts(stream, ends, lo, hi) ==
    { [whole |-> k, part |-> -1] :
          k \in { k \in 0 .. Len(stream) :
                      lo <= bytes_before(ends, k) /\ bytes_before(ends, k) <= hi } }
    \cup
    UNION { { [whole |-> k, part |-> j] :
                  j \in partials(stream[k + 1], lo - bytes_before(ends, k),
                                 hi - bytes_before(ends, k)) } :
            k \in 0 .. (Len(stream) - 1) }

\* whether the cursor is hidden once the terminal has received cmds
hidden_after(hidden, cmds) ==
    LET marks == { k \in DOMAIN cmds : cmds[k][1] \in {"Hide", "Show"} }
    IN  IF marks = {} THEN hidden
        ELSE cmds[CHOOSE k \in marks : \A m \in marks : m <= k][1] = "Hide"

(***************************************************************************)
(* SpecMain: the program of src/main.rs.  The environment chooses the      *)
(* board size given on the command line, the size of the terminal, the     *)
(* events the input thread reads and whether each write to the terminal    *)
(* succeeds.                                                               *)
(***************************************************************************)
\* the values of -n tried: two that main refuses and the 2 x 2 board
MainBoardSizes == {0, 1, 2}

\* the terminals tried: the default, the smallest that fits a 2 x 2 board,
\* one too small for it, and one that reports no rows
TermSizes == {<<80, 24>>, <<4, 3>>, <<3, 2>>, <<80, 0>>}

\* the number of events the input thread reads in a run
MaxEvents == 2

KeyCodes ==
    {"Esc", "Up", "Down", "Left", "Right",
     "c", "q", "k", "w", "j", "s", "h", "a", "l", "d", "x"}

Key(modifiers, code) == <<"Key", modifiers, code>>

Resize == <<"Resize", "NONE", "none">>

\* what event::read() may return: a key with or without Ctrl, or another event
Events ==
    {Key("NONE", c) : c \in KeyCodes} \cup {Key("CONTROL", "c"), Key("CONTROL", "Up"), Resize}

\* main, lines 57-73: what the match makes of a key
key_action(modifiers, code) ==
    IF code = "Esc" \/ (modifiers = "CONTROL" /\ code = "c") \/ code = "q" THEN "break"
    ELSE IF code \in {"Up", "k", "w"} THEN "Up"
    ELSE IF code \in {"Down", "j", "s"} THEN "Down"
    ELSE IF code \in {"Left", "h", "a"} THEN "Left"
    ELSE IF code \in {"Right", "l", "d"} THEN "Right"
    ELSE "ignore"

Min(a, b) == IF a <= b THEN a ELSE b

\* build, line 181: term_height - 1 or the doubling of it leaves u16
max_img_size_overflows(size) == size[2] - 1 < 0 \/ (size[2] - 1) * 2 > 65535

\* build, line 181, in u16 with wrapping arithmetic (what a build without
\* overflow checks computes; with them an overflow panics, see BuildMax)
max_img_size_of(size) == Min((((size[2] - 1) % 65536) * 2) % 65536, size[1])

Exit(code) ==
    /\ pc' = "exit"
    /\ exit_code' = code

InitMain ==
    /\ board_size \in MainBoardSizes
    /\ term_size \in TermSizes
    /\ tiles = <<>>
    /\ old_tiles = <<>>
    /\ pc = "main"
    /\ op = "none"
    /\ direction = "none"
    /\ ret = None
    /\ solved_ret = FALSE
    /\ first_ret = None
    /\ SolveIdle
    /\ img_size = 0
    /\ thread = FALSE
    /\ chan = <<>>
    /\ nread = 0
    /\ raw_mode = FALSE
    /\ cursor_hidden = FALSE
    /\ setup_ok = FALSE
    /\ cleaned = FALSE
    /\ exit_code = "none"
    /\ LogIdle
    /\ build_ret = "none"
    /\ DrawIdle

\* a check that lets the 1 x 1 board through
ensure_n_positive(n) == n > 0

\* main, line 32: ensure!(opt.n > 1, "n must be 2 or larger")
ensure_n(n) == n > 1

\* main, lines 31-38: the check of n and the size of the terminal
MainStart ==
    /\ pc = "main"
    /\ \E size_ok \in BOOLEAN :
           IF ensure_n(board_size) /\ size_ok
           THEN pc' = "build" /\ exit_code' = exit_code
           ELSE Exit("error")
    /\ UNCHANGED <<board_size, tiles, callVars, solveVars>>
    /\ UNCHANGED <<term_size, img_size, thread, chan, nread, raw_mode, cursor_hidden,
                   setup_ok, cleaned>>
    /\ UNCHANGED logVars
    /\ UNCHANGED build_ret
    /\ UNCHANGED drawVars

\* build, lines 179-182: max_img_size and the first img_size.  The u16
\* arithmetic of line 181 overflows on a terminal of 0 rows or of more than
\* 32768: a build with overflow checks panics there, one without wraps.
BuildMax ==
    /\ pc = "build"
    /\ \E overflow_checks \in BOOLEAN :
           IF max_img_size_overflows(term_size) /\ overflow_checks
           THEN /\ pc' = "panic"
                /\ exit_code' = "panic"
                /\ build_ret' = "panic"
                /\ img_size' = img_size
           ELSE /\ pc' = "fit"
                /\ img_size' = board_size
                /\ UNCHANGED <<exit_code, build_ret>>
    /\ UNCHANGED <<board_size, tiles, callVars, solveVars>>
    /\ UNCHANGED <<term_size, thread, chan, nread, raw_mode, cursor_hidden,
                   setup_ok, cleaned, logVars>>
    /\ UNCHANGED drawVars

\* build, lines 183-189: one turn of the doubling loop
FitStep ==
    /\ pc = "fit"
    /\ IF img_size * 2 <= max_img_size_of(term_size)
       THEN img_size' = img_size * 2 /\ pc' = pc
       ELSE img_size' = img_size /\ pc' = "fitted"
    /\ UNCHANGED <<board_size, tiles, callVars, solveVars>>
    /\ UNCHANGED <<term_size, thread, chan, nread, raw_mode, cursor_hidden,
                   setup_ok, cleaned, exit_code, logVars, build_ret>>
    /\ UNCHANGED drawVars

\* build, lines 190-193: the board must fit in the lines of the image
BuildLines ==
    /\ pc = "fitted"
    /\ LET board_lines == img_size \div 2
       IN  IF board_size > board_lines
           THEN Exit("error") /\ build_ret' = "n is too large"
           ELSE pc' = "load" /\ UNCHANGED <<exit_code, build_ret>>
    /\ UNCHANGED <<board_size, tiles, callVars, solveVars>>
    /\ UNCHANGED <<term_size, img_size, thread, chan, nread, raw_mode, cursor_hidden,
                   setup_ok, cleaned, logVars>>
    /\ UNCHANGED drawVars

\* build, lines 195-197: the image is loaded, or the error of load_image
\* returned; then the tiles before the first shuffle
LoadImage ==
    /\ pc = "load"
    /\ \E image_ok \in BOOLEAN :
           IF ~image_ok
           THEN /\ Exit("error")
                /\ build_ret' = "image error"
                /\ UNCHANGED <<tiles, old_tiles>>
           ELSE /\ pc' = "shuffle"
                /\ UNCHANGED <<exit_code, build_ret>>
                /\ tiles' = collect(board_size)
                /\ old_tiles' = collect(board_size)
    /\ UNCHANGED <<board_size, op, direction, ret, solved_ret, first_ret, solveVars>>
    /\ UNCHANGED <<term_size, img_size, thread, chan, nread, raw_mode, cursor_hidden,
                   setup_ok, cleaned, logVars>>
    /\ UNCHANGED drawVars

\* a channel that hands the newest message over first
send_front(ch, e) == <<e>> \o ch

\* tx.send(event), line 47, on the unbounded channel of line 44: the message
\* joins the end of the queue
send(ch, e) == Append(ch, e)

\* rx.recv(), line 56: the oldest message, and the queue without it
recv(ch) == [event |-> Head(ch), rest |-> Tail(ch)]

\* main, lines 44-49: the channel and the input thread
Spawn ==
    /\ pc = "ready"
    /\ thread' = TRUE
    /\ pc' = "setup"
    /\ start_tiles' = tiles
    /\ UNCHANGED <<board_size, tiles, callVars, solveVars>>
    /\ UNCHANGED <<term_size, img_size, chan, nread, raw_mode, cursor_hidden,
                   setup_ok, cleaned, exit_code>>
    /\ UNCHANGED <<sent, handled, applied>>
    /\ UNCHANGED build_ret
    /\ UNCHANGED drawVars

\* the input thread, lines 45-49: one event::read(), sent when it is Ok
InputRead ==
    /\ thread
    /\ pc # "exit"
    /\ nread < MaxEvents
    /\ nread' = nread + 1
    /\ \E read_ok \in BOOLEAN :
           IF read_ok
           THEN \E e \in Events : chan' = send(chan, e) /\ sent' = Append(sent, e)
           ELSE chan' = chan /\ sent' = sent
    /\ UNCHANGED <<boardVars, callVars, solveVars>>
    /\ UNCHANGED <<term_size, img_size, thread, raw_mode, cursor_hidden,
                   setup_ok, cleaned, exit_code>>
    /\ UNCHANGED <<handled, applied, start_tiles>>
    /\ UNCHANGED build_ret
    /\ UNCHANGED drawVars

\* setup_terminal, lines 93-104: enable_raw_mode()?, then Clear(All) and Hide
\* are queued.  Their 10 bytes fit Stdout's empty buffer, so queue! returns
\* Ok and the terminal has received nothing of them yet.
SetupTerminal ==
    /\ pc = "setup"
    /\ \E outcome \in {"raw_mode_err", "ok"} :
           /\ raw_mode' = (outcome = "ok")
           /\ setup_ok' = (outcome = "ok")
           /\ IF outcome = "ok"
              THEN /\ buf' = rest(queue(buf, <<Clear, Hide>>).stream,
                                  queue(buf, <<Clear, Hide>>).ends,
                                  queue(buf, <<Clear, Hide>>).got)
                   /\ pc' = "draw"
                   /\ exit_code' = exit_code
              ELSE buf' = buf /\ Exit("error")
    /\ UNCHANGED <<board_size, tiles, callVars, solveVars>>
    /\ UNCHANGED <<term_size, img_size, thread, chan, nread, cursor_hidden, cleaned>>
    /\ UNCHANGED logVars
    /\ UNCHANGED build_ret
    /\ UNCHANGED <<img_pixels, out, drawn, screen>>

\* main, lines 52-53: board.draw(&mut stdout)? and stdout.flush()?.  The
\* commands of the board follow those of setup_terminal on the writer (what
\* they are is left to SpecDraw).  A write to the terminal is made when the
\* buffer is full during draw and at the flush; when one fails main returns
\* the error, and the terminal has received the commands of setup_terminal
\* in part, whole, or not at all.
DrawAndFlush ==
    /\ pc = "draw"
    /\ \E outcome \in {"draw_err", "flush_err", "ok"} :
           IF outcome = "ok"
           THEN /\ pc' = "loop"
                /\ exit_code' = exit_code
                /\ cursor_hidden' = hidden_after(cursor_hidden, buf.commands)
           ELSE /\ Exit("error")
                /\ \E got \in 0 .. Len(buf.commands) :
                       cursor_hidden' =
                           hidden_after(cursor_hidden, SubSeq(buf.commands, 1, got))
    /\ buf' = EmptyBuffer
    /\ UNCHANGED <<board_size, tiles, callVars, solveVars>>
    /\ UNCHANGED <<term_size, img_size, thread, chan, nread, raw_mode,
                   setup_ok, cleaned>>
    /\ UNCHANGED logVars
    /\ UNCHANGED build_ret
    /\ UNCHANGED <<img_pixels, out, drawn, screen>>

\* main, lines 55-80: one turn of the loop.  rx.recv() waits for an event
\* (the sender lives in the input thread, which never ends, so it does not
\* fail); a key is matched, a direction goes to move_and_draw_tiles, whose
\* writes to the terminal may fail after the tiles have moved (the buffer is
\* empty before the call and after it); then is_solved is asked.
LoopTurn ==
    /\ pc = "loop"
    /\ chan # <<>>
    /\ chan' = recv(chan).rest
    /\ handled' = Append(handled, recv(chan).event)
    /\ LET e == recv(chan).event
           act == IF e[1] = "Key" THEN key_action(e[2], e[3]) ELSE "skip"
       IN  IF act \in Directions
           THEN LET r == move_tiles(board_size, tiles, act)
                IN  /\ tiles' = r.tiles
                    /\ old_tiles' = tiles
                    /\ op' = "move_tiles"
                    /\ direction' = act
                    /\ ret' = r.ret
                    /\ applied' = Append(applied, act)
                    /\ \E write_ok \in BOOLEAN :
                           IF r.ret # None /\ ~write_ok
                           THEN Exit("error") /\ solved_ret' = solved_ret
                           ELSE /\ solved_ret' = is_solved(r.tiles)
                                /\ pc' = IF is_solved(r.tiles) THEN "finish" ELSE "loop"
                                /\ exit_code' = exit_code
           ELSE /\ UNCHANGED <<tiles, old_tiles, op, direction, ret, exit_code, applied>>
                /\ IF act = "break"
                   THEN pc' = "finish" /\ solved_ret' = solved_ret
                   ELSE IF act = "ignore"
                   THEN /\ solved_ret' = is_solved(tiles)
                        /\ pc' = IF is_solved(tiles) THEN "finish" ELSE "loop"
                   ELSE pc' = "loop" /\ solved_ret' = solved_ret
    /\ UNCHANGED <<board_size, first_ret, solveVars>>
    /\ UNCHANGED <<term_size, img_size, thread, nread, raw_mode, cursor_hidden,
                   setup_ok, cleaned>>
    /\ UNCHANGED <<sent, start_tiles>>
    /\ UNCHANGED build_ret
    /\ UNCHANGED drawVars

\* main, lines 82-90, and cleanup_terminal, lines 106-111.  MoveTo and
\* ResetColor are queued on the empty buffer, where they fit, and flushed
\* (line 87).  cleanup_terminal queues Show, which fits as well, and leaves
\* raw mode; main never flushes Show: it is written when the process exits,
\* and a failure of that write is ignored.
Finish ==
    /\ pc = "finish"
    /\ \E outcome \in {"flush_err", "disable_err", "ok"} :
           /\ cleaned' = (outcome # "flush_err")
           /\ raw_mode' = IF outcome = "ok" THEN FALSE ELSE raw_mode
           /\ \E left \in {IF outcome = "flush_err"
                           THEN <<MoveTo(0, (img_size % 65536) \div 2), ResetColor>>
                           ELSE <<Show>>} :
                  \E got \in 0 .. Len(left) :
                      cursor_hidden' = hidden_after(cursor_hidden, SubSeq(left, 1, got))
           /\ Exit(IF outcome = "ok" THEN "ok" ELSE "error")
    /\ buf' = EmptyBuffer
    /\ UNCHANGED <<board_size, tiles, callVars, solveVars>>
    /\ UNCHANGED <<term_size, img_size, thread, chan, nread, setup_ok>>
    /\ UNCHANGED logVars
    /\ UNCHANGED build_ret
    /\ UNCHANGED <<img_pixels, out, drawn, screen>>

NextMain ==
    \/ MainStart
    \/ BuildMax
    \/ FitStep
    \/ BuildLines
    \/ LoadImage
    \/ Shuffle
    \/ Reshuffle
    \/ GenerateReturn
    \/ BuildAssert
    \/ Spawn
    \/ InputRead
    \/ SetupTerminal
    \/ DrawAndFlush
    \/ LoopTurn
    \/ Finish

SpecMain == InitMain /\ [][NextMain]_vars

(***************************************************************************)
(* SpecSize: the part of BoardBuilder::build that chooses img_size (lines  *)
(* 178-193), for any board size from 2 to MaxBoardSize and any terminal of *)
(* up to MaxTermWidth columns and MaxTermHeight rows, the default terminal *)
(* and terminals at the far end of u16.  It ends where build goes on to    *)
(* load the image or has returned.                                         *)
(***************************************************************************)
MaxBoardSize == 5
MaxTermWidth == 40
MaxTermHeight == 24

SizeBoardSizes == 2 .. MaxBoardSize

SizeTermSizes ==
    ((0 .. MaxTermWidth) \X (0 .. MaxTermHeight))
        \cup {<<80, 24>>, <<65535, 32768>>, <<65535, 32769>>, <<65535, 65535>>}

InitSize ==
    /\ board_size \in SizeBoardSizes
    /\ term_size \in SizeTermSizes
    /\ tiles = <<>>
    /\ old_tiles = <<>>
    /\ pc = "build"
    /\ op = "none"
    /\ direction = "none"
    /\ ret = None
    /\ solved_ret = FALSE
    /\ first_ret = None
    /\ SolveIdle
    /\ img_size = 0
    /\ thread = FALSE
    /\ chan = <<>>
    /\ nread = 0
    /\ raw_mode = FALSE
    /\ cursor_hidden = FALSE
    /\ setup_ok = FALSE
    /\ cleaned = FALSE
    /\ exit_code = "none"
    /\ LogIdle
    /\ build_ret = "none"
    /\ DrawIdle

NextSize ==
    \/ BuildMax
    \/ FitStep
    \/ BuildLines

SpecSize == InitSize /\ [][NextSize]_vars

(***************************************************************************)
(* SpecBuild: BoardBuilder::build from its first line to its return, for   *)
(* board sizes 0, 1 and 2 on the terminals of TermSizes.  Every step that   *)
(* can be taken is taken in the end, and a shuffle of the rejection loop   *)
(* that is repeated for ever yields an accepted permutation in the end.    *)
(***************************************************************************)
BuildBoardSizes == {0, 1, 2}

InitBuild ==
    /\ board_size \in BuildBoardSizes
    /\ term_size \in TermSizes
    /\ tiles = <<>>
    /\ old_tiles = <<>>
    /\ pc = "build"
    /\ op = "none"
    /\ direction = "none"
    /\ ret = None
    /\ solved_ret = FALSE
    /\ first_ret = None
    /\ SolveIdle
    /\ img_size = 0
    /\ thread = FALSE
    /\ chan = <<>>
    /\ nread = 0
    /\ raw_mode = FALSE
    /\ cursor_hidden = FALSE
    /\ setup_ok = FALSE
    /\ cleaned = FALSE
    /\ exit_code = "none"
    /\ LogIdle
    /\ build_ret = "none"
    /\ DrawIdle

NextBuild ==
    \/ BuildMax
    \/ FitStep
    \/ BuildLines
    \/ LoadImage
    \/ Shuffle
    \/ Reshuffle
    \/ GenerateReturn
    \/ BuildAssert

\* the thread running build is scheduled; tiles.shuffle(&mut rng) repeated
\* without end yields every permutation, so an accepted one
FairBuild ==
    /\ WF_vars(NextBuild)
    /\ SF_vars(Reshuffle /\ ~needs_reshuffle(board_size, tiles'))

SpecBuild == InitBuild /\ [][NextBuild]_vars /\ FairBuild

(***************************************************************************)
(* Drawing: the commands of Board::draw_tile.                              *)
(***************************************************************************)
RECURSIVE Flatten(_)
Flatten(seqs) == IF seqs = <<>> THEN <<>> ELSE Head(seqs) \o Flatten(Tail(seqs))

\* a blank cell drawn without resetting the colours first
draw_blank_no_reset(screen_x, screen_y, width, height) ==
    Flatten([r \in 1 .. height |->
                 <<MoveTo(screen_x, screen_y + r - 1), print_repeat(" ", width)>>])

\* draw_tile, lines 98-107: the rows of the blank tile
draw_blank(screen_x, screen_y, width, height) ==
    Flatten([r \in 1 .. height |->
                 <<MoveTo(screen_x, screen_y + r - 1), ResetColor, print_repeat(" ", width)>>])

\* upper.zip(lower)
zip(upper, lower) == [c \in 1 .. Len(upper) |-> <<upper[c], lower[c]>>]

\* runs merged when the upper pixels agree, whatever the lower ones
RECURSIVE coalesce_by_upper(_)
coalesce_by_upper(pairs) ==
    IF pairs = <<>> THEN <<>>
    ELSE LET init == coalesce_by_upper(SubSeq(pairs, 1, Len(pairs) - 1))
             b == pairs[Len(pairs)]
         IN  IF init # <<>> /\ init[Len(init)][1][1] = b[1]
             THEN [init EXCEPT ![Len(init)] = <<@[1], @[2] + 1>>]
             ELSE Append(init, <<b, 1>>)

\* .map(|x| (x, 1)).coalesce(..), lines 119-128: the pairs of a row as runs
\* <<pair, len>>; a pair equal to that of the run before it joins that run
RECURSIVE coalesce(_)
coalesce(pairs) ==
    IF pairs = <<>> THEN <<>>
    ELSE LET init == coalesce(SubSeq(pairs, 1, Len(pairs) - 1))
             b == pairs[Len(pairs)]
         IN  IF init # <<>> /\ init[Len(init)][1] = b
             THEN [init EXCEPT ![Len(init)] = <<@[1], @[2] + 1>>]
             ELSE Append(init, <<b, 1>>)

\* the lower-half arm printing the upper-half block
run_commands_upper_block(upper, lower, len) ==
    IF upper = "Reset" /\ lower = "Reset"
    THEN <<ResetColor, print_repeat(" ", len)>>
    ELSE IF upper = "Reset"
    THEN <<SetForegroundColor(lower), SetBackgroundColor("Reset"), print_repeat("upper_half", len)>>
    ELSE <<SetForegroundColor(upper), SetBackgroundColor(lower), print_repeat("upper_half", len)>>

\* draw_tile, lines 130-152: the match on one run
run_commands(upper, lower, len) ==
    IF upper = "Reset" /\ lower = "Reset"
    THEN <<ResetColor, print_repeat(" ", len)>>
    ELSE IF upper = "Reset"
    THEN <<SetForegroundColor(lower), SetBackgroundColor("Reset"), print_repeat("lower_half", len)>>
    ELSE <<SetForegroundColor(upper), SetBackgroundColor(lower), print_repeat("upper_half", len)>>

\* a cell placed img_size / board_size rows below the cell above it
screen_origin_no_halving(n, isz, index) ==
    <<((index % n) * isz) \div n, ((index \div n) * isz) \div n>>

\* draw_tile, lines 88-92: the screen column and row of the cell of index
screen_origin(n, isz, index) ==
    <<((index % n) * isz) \div n, (((index \div n) * isz) \div n) \div 2>>

\* draw_tile, lines 83-87: the image column and row of the tile img_pos
img_origin(n, isz, img_pos) ==
    <<((img_pos % n) * isz) \div n, ((img_pos \div n) * isz) \div n>>

\* draw_tile, lines 114-116: width pixels of image row img_y from column img_x
pixel_row(px, isz, img_x, img_y, width) ==
    [c \in 1 .. width |-> px[img_x + (img_y * isz) + (c - 1)]]

\* draw_tile, lines 112-155: one screen row of a tile that is not the blank
draw_row(px, isz, screen_x, screen_y, img_x, img_y, width) ==
    LET upper == pixel_row(px, isz, img_x, img_y, width)
        lower == pixel_row(px, isz, img_x, img_y + 1, width)
        runs == coalesce(zip(upper, lower))
    IN  <<MoveTo(screen_x, screen_y)>>
        \o Flatten([i \in 1 .. Len(runs) |->
                        run_commands(runs[i][1][1], runs[i][1][2], runs[i][2])])
        \o <<ResetColor>>

\* Board::draw_tile: the commands it queues
draw_tile(n, isz, px, t, index) ==
    LET img_pos == t[index]
        img_xy == img_origin(n, isz, img_pos)
        screen_xy == screen_origin(n, isz, index)
        width == isz \div n
        height == width \div 2
    IN  IF img_pos = blank_tile_num(n)
        THEN draw_blank(screen_xy[1], screen_xy[2], width, height)
        ELSE Flatten([r \in 1 .. height |->
                          draw_row(px, isz, screen_xy[1], screen_xy[2] + (r - 1),
                                   img_xy[1], img_xy[2] + 2 * (r - 1), width)])

(***************************************************************************)
(* The terminal the commands reach: a cursor, the current colours and the  *)
(* character cells, each <<glyph, foreground, background>>.  Print writes   *)
(* its glyphs from the cursor rightwards in the current colours; Clear     *)
(* blanks every cell.  The bytes of a command may have arrived in part:    *)
(* unfinished names the kind of that command.  An escape sequence shows    *)
(* nothing until it is complete; a Print cut short shows the glyphs whose  *)
(* bytes arrived whole.                                                    *)
(***************************************************************************)
Cells(columns, rows) == (0 .. (columns - 1)) \X (0 .. (rows - 1))

terminal(cells) ==
    [cells |-> cells, x |-> 0, y |-> 0, fg |-> "Reset", bg |-> "Reset", unfinished |-> ""]

apply(term, cmd) ==
    CASE cmd[1] = "MoveTo" -> [term EXCEPT !.x = cmd[2], !.y = cmd[3]]
      [] cmd[1] = "ResetColor" -> [term EXCEPT !.fg = "Reset", !.bg = "Reset"]
      [] cmd[1] = "SetForegroundColor" -> [term EXCEPT !.fg = cmd[4]]
      [] cmd[1] = "SetBackgroundColor" -> [term EXCEPT !.bg = cmd[4]]
      [] cmd[1] = "Print" ->
           LET written == {<<term.x + i, term.y>> : i \in 0 .. (cmd[2] - 1)}
           IN  [term EXCEPT
                  !.cells = [c \in (DOMAIN term.cells) \cup written |->
                                IF c \in written THEN <<cmd[4], term.fg, term.bg>>
                                ELSE term.cells[c]],
                  !.x = term.x + cmd[2]]
      [] cmd[1] = "Clear" ->
           [term EXCEPT !.cells = [c \in DOMAIN term.cells |-> <<" ", "Reset", "Reset">>]]
      [] cmd[1] \in {"Hide", "Show", "Flush"} -> term

\* the terminal after the commands of cmds in order (the first half, then
\* the second half from where the first left the terminal)
RECURSIVE apply_all(_, _)
apply_all(term, cmds) ==
    IF cmds = <<>> THEN term
    ELSE IF Len(cmds) = 1 THEN apply(term, cmds[1])
    ELSE CHOOSE last \in
             { apply_all(mid, SubSeq(cmds, Len(cmds) \div 2 + 1, Len(cmds))) :
               mid \in {apply_all(term, SubSeq(cmds, 1, Len(cmds) \div 2))} } : TRUE

\* the terminal after each command of cmds: entry k + 1 is the terminal
\* after k commands
RECURSIVE apply_each(_, _)
apply_each(term, cmds) ==
    IF cmds = <<>> THEN <<term>>
    ELSE IF Len(cmds) = 1 THEN <<term, apply(term, cmds[1])>>
    ELSE CHOOSE all \in
             { left \o Tail(apply_each(left[Len(left)],
                                       SubSeq(cmds, Len(cmds) \div 2 + 1, Len(cmds)))) :
               left \in {apply_each(term, SubSeq(cmds, 1, Len(cmds) \div 2))} } : TRUE

\* the terminal that has received the stream up to the cut f, given the
\* terminals after each whole command
received(terms, stream, f) ==
    LET whole == terms[f.whole + 1]
    IN  IF f.part < 0 THEN whole
        ELSE IF stream[f.whole + 1][1] = "Print"
        THEN [apply(whole, print_repeat(stream[f.whole + 1][4], f.part))
                 EXCEPT !.unfinished = "Print"]
        ELSE [whole EXCEPT !.unfinished = stream[f.whole + 1][1]]

\* the cut at byte offset `got` of the stream, an offset where a piece ends
cut_at(stream, ends, got) ==
    LET whole == Cardinality({ k \in DOMAIN ends : ends[k] <= got })
    IN  [whole |-> whole, part |-> IF got = bytes_before(ends, whole) THEN -1 ELSE 0]

\* the terminal once the rest of a command it had in part has arrived
finished(term) == [term EXCEPT !.unfinished = ""]

(***************************************************************************)
(* SpecTile: Board::draw_tile as a function of the board and the index.    *)
(* The boards are those build can return: img_size = board_size * 2^k with *)
(* k >= 1.  The images are every image whose rows repeat one pair of rows  *)
(* of cell width (all run structures of a row), and images that differ     *)
(* from tile to tile.  The cells of the terminal start with a glyph that    *)
(* draw_tile never prints, so that what it has written can be told.        *)
(***************************************************************************)
DrawBoards == {<<2, 4>>, <<2, 8>>, <<3, 6>>}

\* every image of rows alternating between two rows of period width
StripeImages(n, isz) ==
    LET width == isz \div n
    IN  { [i \in 0 .. (isz * isz - 1) |->
              IF (i \div isz) % 2 = 0 THEN u[((i % isz) % width) + 1]
              ELSE l[((i % isz) % width) + 1]] :
          u \in [1 .. width -> Palette], l \in [1 .. width -> Palette] }

PaletteSeq == <<"Reset", "red", "blue">>

\* images whose colours change along x and y with given steps and phase
SlopeImages(isz) ==
    { [i \in 0 .. (isz * isz - 1) |->
          PaletteSeq[((a * (i % isz) + b * (i \div isz) + c) % 3) + 1]] :
      a \in 0 .. 2, b \in 0 .. 2, c \in 0 .. 2 }

InitTile ==
    /\ \E b \in DrawBoards :
           /\ board_size = b[1]
           /\ img_size = b[2]
           /\ img_pixels \in StripeImages(b[1], b[2]) \cup SlopeImages(b[2])
           /\ screen = terminal([c \in Cells(b[2], b[2] \div 2) |-> <<"stale", "Reset", "Reset">>])
    /\ tiles \in TileSamples(board_size)
    /\ old_tiles = tiles
    /\ pc = "ready"
    /\ op = "none"
    /\ direction = "none"
    /\ ret = None
    /\ solved_ret = FALSE
    /\ first_ret = None
    /\ SolveIdle
    /\ term_size = <<80, 24>>
    /\ thread = FALSE
    /\ chan = <<>>
    /\ nread = 0
    /\ raw_mode = FALSE
    /\ cursor_hidden = FALSE
    /\ setup_ok = FALSE
    /\ cleaned = FALSE
    /\ exit_code = "none"
    /\ LogIdle
    /\ build_ret = "Ok"
    /\ out = <<>>
    /\ drawn = <<>>
    /\ buf = EmptyBuffer

\* a call of Board::draw_tile on a writer that hands every command to the
\* terminal at once and returns Ok(()) (Stdout's buffer and a failing write
\* are part of SpecDraw)
DrawTile(index) ==
    /\ pc = "ready"
    /\ op' = "draw_tile"
    /\ out' = draw_tile(board_size, img_size, img_pixels, tiles, index)
    /\ drawn' = <<index>>
    /\ screen' = apply_all(screen, out')
    /\ pc' = "drawn"
    /\ UNCHANGED <<board_size, tiles, direction, ret, old_tiles, solved_ret, first_ret>>
    /\ UNCHANGED solveVars
    /\ UNCHANGED <<term_size, img_size, thread, chan, nread, raw_mode, cursor_hidden,
                   setup_ok, cleaned, exit_code, logVars, build_ret, img_pixels, buf>>

NextTile == \E index \in Positions(board_size) : DrawTile(index)

SpecTile == InitTile /\ [][NextTile]_vars

(***************************************************************************)
(* SpecDraw: what main writes for a built board once setup_terminal has    *)
(* returned: Board::draw, the flush after it, and a move_and_draw_tiles     *)
(* call for each direction key handled, until the board is solved.  The    *)
(* writer is Stdout: the commands reach the terminal when its buffer is    *)
(* full and at a flush.  Such a write may fail with the terminal having    *)
(* received any part of the bytes handed to it, which ends main; what is   *)
(* left in the buffer is written again when the process exits.  A state    *)
(* with pc = "exit" is the state at the end of the process.                *)
(***************************************************************************)
\* the direction keys handled in a run
MaxMoves == 3

\* the boards build may hand to main
DrawStarts(n) ==
    IF n = 2 THEN { p \in Perms(n) : is_solvable(n, p) } ELSE TileSamples(n)

\* Board::draw, lines 33-38: the indexes passed to draw_tile, in order
draw(n) == [k \in 1 .. n * n |-> k - 1]

\* only the new position of the blank is drawn again
move_and_draw_tiles_new_only(n, t, d) ==
    LET r == move_tiles(n, t, d)
    IN  IF r.ret # None
        THEN [tiles |-> r.tiles, ret |-> r.ret, drawn |-> <<r.ret[2]>>, flush |-> TRUE]
        ELSE [tiles |-> t, ret |-> None, drawn |-> <<>>, flush |-> FALSE]

\* Board::move_and_draw_tiles, lines 40-47: the tiles after it, what
\* move_tiles returned, the indexes passed to draw_tile and whether it flushes
move_and_draw_tiles(n, t, d) ==
    LET r == move_tiles(n, t, d)
    IN  IF r.ret # None
        THEN [tiles |-> r.tiles, ret |-> r.ret, drawn |-> <<r.ret[1], r.ret[2]>>,
              flush |-> TRUE]
        ELSE [tiles |-> t, ret |-> None, drawn |-> <<>>, flush |-> FALSE]

\* the commands of draw_tile calls with the given indexes, one after another
draw_tiles(n, isz, px, t, indexes) ==
    Flatten([k \in 1 .. Len(indexes) |-> draw_tile(n, isz, px, t, indexes[k])])

\* the number of commands queued when each of the draw_tile calls returns
tile_ends(n, isz, px, t, indexes) ==
    [m \in 1 .. Len(indexes) |-> Len(draw_tiles(n, isz, px, t, SubSeq(indexes, 1, m)))]

\* the draw_tile calls made when queueing failed after `whole` commands: the
\* calls that returned and the one the failing command belongs to
calls_begun(ends, indexes, whole) ==
    LET returned == { m \in 1 .. Len(indexes) : ends[m] <= whole }
    IN  IF Cardinality(returned) = Len(indexes) THEN indexes
        ELSE SubSeq(indexes, 1, Cardinality(returned) + 1)

\* a board whose commands do not fit the buffer, and the images tried on it
SpillBoards == {<<2, 16>>}

\* opaque pixels, each unlike its neighbours
SpillImages(isz) ==
    { [i \in 0 .. (isz * isz - 1) |->
          IF ((i % isz) + (i \div isz)) % 2 = 0 THEN "red" ELSE "blue"] }

\* what the terminal showed before the program
Stale(isz) == [c \in Cells(isz, isz \div 2) |-> <<"stale", "Reset", "Reset">>]
Blank(isz) == [c \in Cells(isz, isz \div 2) |-> <<" ", "Reset", "Reset">>]

\* the state when setup_terminal has returned Ok (main, line 51): Clear and
\* Hide wait in the buffer
InitDraw ==
    /\ \E b \in DrawBoards \cup SpillBoards :
           /\ board_size = b[1]
           /\ img_size = b[2]
           /\ img_pixels \in IF b \in SpillBoards THEN SpillImages(b[2])
                             ELSE SlopeImages(b[2])
           /\ screen \in {terminal(Stale(b[2])), terminal(Blank(b[2]))}
    /\ tiles \in IF <<board_size, img_size>> \in SpillBoards
                 THEN TileSamples(board_size) ELSE DrawStarts(board_size)
    /\ old_tiles = tiles
    /\ pc = "draw"
    /\ op = "none"
    /\ direction = "none"
    /\ ret = None
    /\ solved_ret = FALSE
    /\ first_ret = None
    /\ SolveIdle
    /\ term_size = <<80, 24>>
    /\ thread = TRUE
    /\ chan = <<>>
    /\ nread = 0
    /\ raw_mode = TRUE
    /\ cursor_hidden = FALSE
    /\ setup_ok = TRUE
    /\ cleaned = FALSE
    /\ exit_code = "none"
    /\ LogIdle
    /\ build_ret = "Ok"
    /\ out = <<>>
    /\ drawn = <<>>
    /\ buf = [commands |-> <<Clear, Hide>>, written |-> 0]

\* the operation queued cmds behind the buffer and returned Ok: q is
\* queue(buf, cmds); the terminal has received what the writes made when the
\* buffer was full handed to it
Queued(q) ==
    /\ buf' = rest(q.stream, q.ends, q.got)
    /\ IF q.writes = <<>>
       THEN UNCHANGED <<screen, cursor_hidden>>
       ELSE \E f \in {cut_at(q.stream, q.ends, q.got)} :
                /\ screen' = received(apply_each(finished(screen),
                                                 SubSeq(q.stream, 1, f.whole)),
                                      q.stream, f)
                /\ cursor_hidden' = hidden_after(cursor_hidden,
                                                 SubSeq(q.stream, 1, f.whole))

\* a write to the terminal failed and main returned the error: at the end of
\* the process the terminal has received the stream up to some byte from the
\* lo-th to the hi-th
WriteFailed(q, lo, hi) ==
    /\ \E terms \in {apply_each(finished(screen), q.stream)} :
           \E f \in cuts(q.stream, q.ends, lo, hi) :
               /\ screen' = received(terms, q.stream, f)
               /\ cursor_hidden' = hidden_after(cursor_hidden,
                                                SubSeq(q.stream, 1, f.whole))
    /\ buf' = EmptyBuffer
    /\ Exit("error")

\* main, line 52: board.draw(&mut stdout)?.  It fails when a write made with
\* the buffer full does: the commands before the one being queued are queued,
\* the draw_tile call it belongs to has begun.
Draw ==
    /\ pc = "draw"
    /\ op' = "draw"
    /\ \E cmds \in {draw_tiles(board_size, img_size, img_pixels, tiles, draw(board_size))},
          ends \in {tile_ends(board_size, img_size, img_pixels, tiles, draw(board_size))} :
         \E q \in {queue(buf, cmds)} :
           \/ /\ drawn' = draw(board_size)
              /\ out' = cmds
              /\ Queued(q)
              /\ pc' = "flush"
              /\ exit_code' = exit_code
           \/ \E w \in DOMAIN q.writes :
                  /\ drawn' = calls_begun(ends, draw(board_size),
                                          q.writes[w].cmd - Len(buf.commands) - 1)
                  /\ out' = SubSeq(cmds, 1, q.writes[w].cmd - Len(buf.commands) - 1)
                  /\ WriteFailed(q, q.writes[w].from, q.writes[w].fail_to)
    /\ UNCHANGED <<board_size, tiles, direction, ret, old_tiles, solved_ret, first_ret>>
    /\ UNCHANGED solveVars
    /\ UNCHANGED <<term_size, img_size, thread, chan, nread, raw_mode,
                   setup_ok, cleaned, logVars, build_ret, img_pixels>>

\* main, line 53: stdout.flush()?: the buffer, with the commands of
\* setup_terminal and of draw in it, is written to the terminal
FlushDraw ==
    /\ pc = "flush"
    /\ op' = "flush"
    /\ drawn' = <<>>
    /\ \E q \in {queue(buf, <<>>)} :
           \/ /\ out' = <<Flush>>
              /\ screen' = apply_all(finished(screen), q.stream)
              /\ cursor_hidden' = hidden_after(cursor_hidden, q.stream)
              /\ buf' = EmptyBuffer
              /\ pc' = "loop"
              /\ exit_code' = exit_code
           \/ /\ q.stream # <<>>
              /\ out' = <<>>
              /\ WriteFailed(q, buf.written, bytes_before(q.ends, Len(q.stream)))
    /\ UNCHANGED <<board_size, tiles, direction, ret, old_tiles, solved_ret, first_ret>>
    /\ UNCHANGED solveVars
    /\ UNCHANGED <<term_size, img_size, thread, chan, nread, raw_mode,
                   setup_ok, cleaned, logVars, build_ret, img_pixels>>

\* main, lines 65-78: a direction key is handled: move_and_draw_tiles(..)?,
\* then is_solved.  The two draw_tile calls queue their commands; a write
\* made with the buffer full fails as in draw; the flush of board.rs line 44
\* fails with both calls returned and every command queued.
MoveAndDraw(d) ==
    /\ pc = "loop"
    /\ nread < MaxMoves
    /\ nread' = nread + 1
    /\ op' = "move_and_draw_tiles"
    /\ direction' = d
    /\ old_tiles' = tiles
    /\ \E r \in {move_and_draw_tiles(board_size, tiles, d)} :
           /\ tiles' = r.tiles
           /\ ret' = r.ret
           /\ \E cmds \in {draw_tiles(board_size, img_size, img_pixels, r.tiles, r.drawn)},
                 ends \in {tile_ends(board_size, img_size, img_pixels, r.tiles, r.drawn)} :
                \E q \in {queue(buf, cmds)} :
                  \/ /\ drawn' = r.drawn
                     /\ out' = cmds \o (IF r.flush THEN <<Flush>> ELSE <<>>)
                     /\ IF r.flush
                        THEN /\ screen' = apply_all(finished(screen), q.stream)
                             /\ cursor_hidden' = hidden_after(cursor_hidden, q.stream)
                             /\ buf' = EmptyBuffer
                        ELSE Queued(q)
                     /\ solved_ret' = is_solved(r.tiles)
                     /\ pc' = IF is_solved(r.tiles) THEN "finish" ELSE "loop"
                     /\ exit_code' = exit_code
                  \/ /\ \E w \in DOMAIN q.writes :
                            /\ drawn' = calls_begun(ends, r.drawn,
                                                    q.writes[w].cmd - Len(buf.commands) - 1)
                            /\ out' = SubSeq(cmds, 1,
                                             q.writes[w].cmd - Len(buf.commands) - 1)
                            /\ WriteFailed(q, q.writes[w].from, q.writes[w].fail_to)
                     /\ solved_ret' = solved_ret
                  \/ /\ r.flush
                     /\ q.stream # <<>>
                     /\ drawn' = r.drawn
                     /\ out' = cmds
                     /\ WriteFailed(q, q.got, bytes_before(q.ends, Len(q.stream)))
                     /\ solved_ret' = solved_ret
    /\ UNCHANGED <<board_size, first_ret>>
    /\ UNCHANGED solveVars
    /\ UNCHANGED <<term_size, img_size, thread, chan, raw_mode,
                   setup_ok, cleaned, logVars, build_ret, img_pixels>>

NextDraw ==
    \/ Draw
    \/ FlushDraw
    \/ \E d \in Directions : MoveAndDraw(d)

SpecDraw == InitDraw /\ [][NextDraw]_vars

(***************************************************************************)
(* Properties                                                              *)
(***************************************************************************)

\* every value of 0 .. n * n - 1 at exactly one index: t is a function on
\* that finite set whose values are all of it
IsPermutation(n, t) ==
    /\ DOMAIN t = Positions(n)
    /\ {t[i] : i \in DOMAIN t} = Positions(n)

\* C1: in every state, through generation and any sequence of move_tiles
\* calls, tiles is a permutation of 0 .. board_size^2 - 1: every value occurs
\* exactly once, so exactly one position holds the blank marker.
C1_TilesPermutation ==
    /\ IsPermutation(board_size, tiles)
    /\ Cardinality({i \in DOMAIN tiles : tiles[i] = blank_tile_num(board_size)}) = 1

C1_Witness ==
    /\ pc = "ready"
    /\ op = "move_tiles"
    /\ ret # None
    /\ board_size = 3
    /\ tiles # old_tiles

\* C2: every tile sequence generate_tiles returns satisfies is_solvable, the
\* assertion of build never fails, and every board handed on is accepted by
\* the predicate at the moment it is built.
C2_GeneratedSolvable ==
    /\ pc # "panic"
    /\ pc = "assert" => is_solvable(board_size, tiles)
    /\ (pc = "ready" /\ op = "none") => is_solvable(board_size, tiles)

C2_Witness ==
    /\ pc = "ready"
    /\ op = "none"
    /\ board_size \in GenerateSizes
    /\ tiles # collect(board_size)

\* C3: for every permutation p of 0 .. n^2 - 1 (n = 2 and n = 3),
\* is_solvable(n, p) holds if and only if the identity, the permutation of
\* which is_solved is true, is reachable from p by legal move_tiles calls.
\* (reach: p is reachable from the identity; back: the moves from p can be
\* taken back, so the two reachabilities agree.)
C3_SolvableIffReachable ==
    pc = "probed" =>
        /\ back
        /\ is_solvable(board_size, tiles) <=> reach
        /\ solved_ret => reach

C3_Witness ==
    /\ pc = "probed"
    /\ tiles # collect(board_size)
    /\ is_solvable(board_size, tiles)
    /\ reach
    /\ back
    /\ ~solved_ret

\* the destination of a call, from the blank of old_tiles and the offset
Dest(n, t, d) ==
    LET b == position(t, blank_tile_num(n))
    IN  <<(b % n) + offset(d)[1], (b \div n) + offset(d)[2]>>

OnBoard(n, xy) == xy[1] \in 0 .. (n - 1) /\ xy[2] \in 0 .. (n - 1)

\* C4: when the destination lies on the board, the call exchanges the entries
\* at the blank's old position and the destination, leaves every other
\* position alone, leaves the blank at the destination and returns
\* Some((old blank position, destination)).
C4_LegalMoveOneSwap ==
    (op = "move_tiles" /\ OnBoard(board_size, Dest(board_size, old_tiles, direction))) =>
        \A b \in {position(old_tiles, blank_tile_num(board_size))},
           xy \in {Dest(board_size, old_tiles, direction)} :
        \A dst \in {xy[1] + xy[2] * board_size} :
            /\ ret = Some(b, dst)
            /\ tiles[dst] = old_tiles[b]
            /\ tiles[b] = old_tiles[dst]
            /\ tiles[dst] = blank_tile_num(board_size)
            /\ \A i \in Positions(board_size) \ {b, dst} : tiles[i] = old_tiles[i]
            /\ b # dst

C4_Witness ==
    /\ op = "move_tiles"
    /\ OnBoard(board_size, Dest(board_size, old_tiles, direction))
    /\ board_size = 3
    /\ direction = "Left"
    /\ ret = Some(4, 5)

\* C5: when the destination is off the board on either axis, the call returns
\* None and leaves tiles unchanged (the program goes on: no panic); a move at
\* the last or first column never wraps into the neighbouring row.
C5_IllegalMoveNoOp ==
    op = "move_tiles" =>
        \A b \in {position(old_tiles, blank_tile_num(board_size))} :
            /\ ~OnBoard(board_size, Dest(board_size, old_tiles, direction)) =>
                   /\ ret = None
                   /\ tiles = old_tiles
                   /\ pc = "ready"
            /\ (\/ direction = "Left" /\ b % board_size = board_size - 1
                \/ direction = "Right" /\ b % board_size = 0) =>
                   /\ ret = None
                   /\ tiles = old_tiles

C5_Witness ==
    /\ op = "move_tiles"
    /\ direction = "Left"
    /\ board_size = 3
    /\ position(old_tiles, blank_tile_num(board_size)) = 2
    /\ ret = None

\* the offsets as the specification lists them, in (column, row) terms
ListedOffset(d) ==
    IF d = "Up" THEN <<0, 1>>
    ELSE IF d = "Down" THEN <<0, -1>>
    ELSE IF d = "Left" THEN <<1, 0>>
    ELSE <<-1, 0>>

Abs(x) == IF x < 0 THEN -x ELSE x

\* C6: a call shifts the blank by the listed unit offset of its direction
\* (Up (0,+1), Down (0,-1), Left (+1,0), Right (-1,0)); it moves if and only
\* if both resulting coordinates lie in 0 .. board_size - 1; and the
\* destination of a move is the orthogonal neighbour of the blank: its index
\* differs by 1 within the same row, or by board_size.
C6_OffsetsAndLegality ==
    op = "move_tiles" =>
        \A n \in {board_size} :
        \A b \in {position(old_tiles, blank_tile_num(n))} :
        \A x \in {(b % n) + ListedOffset(direction)[1]},
           y \in {(b \div n) + ListedOffset(direction)[2]} :
        \A legal \in {0 <= x /\ x < n /\ 0 <= y /\ y < n} :
            /\ (ret # None) <=> legal
            /\ legal =>
                 /\ ret = Some(b, x + y * n)
                 /\ position(tiles, blank_tile_num(n)) = x + y * n
                 /\ \/ /\ Abs(ret[2] - ret[1]) = 1
                       /\ ret[2] \div n = ret[1] \div n
                    \/ Abs(ret[2] - ret[1]) = n

C6_Witness ==
    /\ op = "move_tiles"
    /\ direction = "Up"
    /\ board_size = 3
    /\ ret = Some(1, 4)

\* C7: from any permutation, a direction and then its opposite, when both
\* calls moved, leave the permutation as it was before the pair.
C7_OppositeUndoes ==
    (pc = "undone" /\ first_ret # None /\ ret # None) => tiles = old_tiles

C7_Witness ==
    /\ pc = "undone"
    /\ first_ret # None
    /\ ret # None
    /\ board_size = 3
    /\ direction = "Right"
    /\ ~is_solvable(board_size, tiles)

\* C8: is_solved returns true if and only if tiles is the identity
\* (tiles[i] = i everywhere, the blank last), a board holding the identity
\* reports solved, and the call leaves tiles as they were.
C8_SolvedIffIdentity ==
    op = "is_solved" =>
        /\ solved_ret <=> (tiles = collect(board_size))
        /\ solved_ret <=> (\A i \in Positions(board_size) : tiles[i] = i)
        /\ solved_ret => tiles[board_size * board_size - 1] = blank_tile_num(board_size)
        /\ tiles = old_tiles

C8_Witness ==
    /\ op = "is_solved"
    /\ solved_ret
    /\ board_size = 3

\* the board has been built and handed to main
BoardBuilt == pc \in {"ready", "setup", "draw", "loop", "finish", "exit"} /\ tiles # <<>>

\* C9: solved is terminal: once the permutation of the built board is the
\* identity, whether generated so or reached by a move, the controller applies
\* no further move to it.
C9_SolvedIsTerminal ==
    [][(BoardBuilt /\ is_solved(tiles)) => tiles' = tiles]_vars

\* C10: the cleanup of the terminal runs on every exit path taken after
\* setup_terminal has enabled raw mode and hidden the cursor: the process does
\* not end with cleanup_terminal never called.
C10_CleanupOnEveryExit ==
    (pc = "exit" /\ setup_ok) => cleaned

\* what the loop makes of a received event: a direction, or nothing to apply
event_direction(e) ==
    IF e[1] = "Key" /\ key_action(e[2], e[3]) \in Directions
    THEN <<key_action(e[2], e[3])>>
    ELSE <<>>

RECURSIVE DirectionsOf(_)
DirectionsOf(events) ==
    IF events = <<>> THEN <<>>
    ELSE event_direction(Head(events)) \o DirectionsOf(Tail(events))

\* the tiles after move_tiles calls with the given directions, in order
RECURSIVE Replay(_, _, _)
Replay(n, t, dirs) ==
    IF dirs = <<>> THEN t
    ELSE Replay(n, move_tiles(n, t, Head(dirs)).tiles, Tail(dirs))

\* C11: no event is dropped or reordered between the input thread and the
\* loop: the events sent are, in order, the events the loop has handled
\* followed by the events waiting in the channel; the directions the loop has
\* applied are those of the handled events in the same order; and the tiles
\* are the tiles main held when it started the thread with exactly those
\* moves applied, so nothing but the loop has changed them.
C11_EventsInOrder ==
    /\ sent = handled \o chan
    /\ Len(sent) <= nread
    /\ applied = DirectionsOf(handled)
    /\ thread => tiles = Replay(board_size, start_tiles, applied)

C11_Witness ==
    /\ Len(handled) = 2
    /\ handled[1] # handled[2]
    /\ applied = <<"Up", "Left">>
    /\ tiles # start_tiles
    /\ Len(sent) = 2

\* C12: with a board size of 0 or 1, on every terminal, the program ends with
\* an error before anything is constructed: build is not called (no image
\* size, no tiles generated), no input thread is started and the terminal is
\* never set up, so the interactive loop is not entered.
C12_SmallBoardRejected ==
    board_size < 2 =>
        /\ pc \in {"main", "exit"}
        /\ pc = "exit" => exit_code = "error"
        /\ tiles = <<>>
        /\ img_size = 0
        /\ ~thread
        /\ ~raw_mode
        /\ ~setup_ok
        /\ handled = <<>>

C12_Witness ==
    /\ board_size = 1
    /\ term_size = <<80, 24>>
    /\ pc = "exit"
    /\ exit_code = "error"

\* min(2 * (h - 1), w) of a terminal, in the integers
Avail(size) == Min(2 * (size[2] - 1), size[1])

\* v is n * 2^k for some k >= 0
RECURSIVE IsScaled(_, _)
IsScaled(v, n) ==
    \/ v = n
    \/ v > n /\ v % 2 = 0 /\ IsScaled(v \div 2, n)

\* build has chosen img_size and gone on, or has returned "n is too large"
Sized == pc = "load" \/ build_ret = "n is too large"

\* what C13 says of a build that has chosen its img_size
LargestFit ==
    LET n == board_size
        cell_width == img_size \div n
        cell_height == cell_width \div 2
    IN  /\ build_ret # "panic"
        /\ Sized =>
              /\ n <= Avail(term_size) =>
                    /\ IsScaled(img_size, n)
                    /\ img_size <= Avail(term_size)
                    /\ img_size * 2 > Avail(term_size)
              /\ (pc = "load") <=> (n <= Avail(term_size) /\ img_size \div 2 >= n)
              /\ (pc # "load") <=> (build_ret = "n is too large")
              /\ pc = "load" =>
                    /\ img_size % n = 0
                    /\ img_size >= n * 2
                    /\ cell_width % 2 = 0
                    /\ cell_height * 2 = cell_width
              /\ (n = 2 /\ term_size = <<80, 24>>) =>
                    /\ pc = "load"
                    /\ img_size = 32
                    /\ cell_width = 16
                    /\ cell_height = 8

\* C13: for every terminal (w, h) and board size n >= 2, build chooses for
\* img_size the largest n * 2^k (k >= 0) that is at most min(2 * (h - 1), w);
\* it goes on exactly when that value exists and its half is at least n, and
\* returns "n is too large" otherwise (it does not panic); when it goes on,
\* img_size is a multiple of n with k >= 1, the cell width img_size / n is
\* even and the cell height is half of it; n = 2 on (80, 24) gives 32, 16, 8.
C13_LargestFittingImgSize ==
    board_size >= 2 => LargestFit

\* the same on the terminals whose rows line 181 computes without overflow,
\* those of 1 to 32768 rows
LargestFitWithoutOverflow ==
    (board_size >= 2 /\ ~max_img_size_overflows(term_size)) => LargestFit

\* the rectangle of character cells of the board position index
CellRect(n, isz, index) ==
    LET width == isz \div n
        height == width \div 2
    IN  { <<x, y>> \in Cells(isz, isz \div 2) :
            /\ x \div width = index % n
            /\ y \div height = index \div n }

\* C14: draw_tile on a position holding the blank queues exactly cell-height
\* rows, each a MoveTo to the left column of the cell on the next screen row,
\* a ResetColor and cell-width spaces; on the terminal exactly the cell-height
\* by cell-width cells of that position become spaces in the default colours
\* and no other cell is written; and the commands are the same whatever the
\* image holds (no pixel is read).
C14_BlankCellDrawn ==
    (op = "draw_tile" /\ tiles[drawn[1]] = blank_tile_num(board_size)) =>
        LET n == board_size
            index == drawn[1]
            width == img_size \div n
            height == width \div 2
            left == (index % n) * width
            top == (index \div n) * height
        IN  /\ Len(out) = 3 * height
            /\ \A r \in 0 .. (height - 1) :
                   /\ out[3 * r + 1] = <<"MoveTo", left, top + r, "">>
                   /\ out[3 * r + 2] = <<"ResetColor", 0, 0, "">>
                   /\ out[3 * r + 3] = <<"Print", width, 0, " ">>
            /\ DOMAIN screen.cells = Cells(img_size, img_size \div 2)
            /\ Cardinality(CellRect(n, img_size, index)) = height * width
            /\ \A c \in DOMAIN screen.cells :
                   screen.cells[c] = IF c \in CellRect(n, img_size, index)
                                     THEN <<" ", "Reset", "Reset">>
                                     ELSE <<"stale", "Reset", "Reset">>
            /\ \A px \in SlopeImages(img_size) :
                   draw_tile(n, img_size, px, tiles, index) = out

C14_Witness ==
    /\ op = "draw_tile"
    /\ tiles[drawn[1]] = blank_tile_num(board_size)
    /\ board_size = 3
    /\ drawn = <<4>>
    /\ img_pixels[0] = "red"
    /\ Len(out) = 3

\* the (upper, lower) pixels behind row r, column c of the cell showing tile
\* img_pos: image rows 2r and 2r + 1 and column c of the tile's region
PixelPair(n, isz, px, img_pos, r, c) ==
    LET width == isz \div n
        src_x == (img_pos % n) * width + c
        src_y == (img_pos \div n) * width + 2 * r
    IN  <<px[src_x + src_y * isz], px[src_x + (src_y + 1) * isz]>>

\* the character cell a pixel pair is shown as
CellOf(pair) ==
    IF pair[1] = "Reset" /\ pair[2] = "Reset" THEN <<" ", "Reset", "Reset">>
    ELSE IF pair[1] = "Reset" THEN <<"lower_half", pair[2], "Reset">>
    ELSE <<"upper_half", pair[1], pair[2]>>

\* C15: after draw_tile on a position holding a tile other than the blank,
\* the cell at row r, column c of the position shows what its pixel pair
\* (image rows 2r and 2r + 1, column c of the tile's region) determines: a
\* space in the default colours when both are transparent, a lower-half
\* block with foreground = lower and default background when only the upper
\* is, otherwise an upper-half block with foreground = upper and background =
\* lower (default when the lower is transparent); no other cell is written.
C15_GlyphPerColumn ==
    (op = "draw_tile" /\ tiles[drawn[1]] # blank_tile_num(board_size)) =>
        LET n == board_size
            index == drawn[1]
            width == img_size \div n
            height == width \div 2
            left == (index % n) * width
            top == (index \div n) * height
        IN  /\ \A r \in 0 .. (height - 1) : \A c \in 0 .. (width - 1) :
                   screen.cells[<<left + c, top + r>>] =
                       CellOf(PixelPair(n, img_size, img_pixels, tiles[index], r, c))
            /\ DOMAIN screen.cells = Cells(img_size, img_size \div 2)
            /\ \A c \in DOMAIN screen.cells \ CellRect(n, img_size, index) :
                   screen.cells[c] = <<"stale", "Reset", "Reset">>

C15_Witness ==
    /\ op = "draw_tile"
    /\ tiles[drawn[1]] \notin {blank_tile_num(board_size), drawn[1]}
    /\ img_size = 8
    /\ \E c \in DOMAIN screen.cells : screen.cells[c] = <<" ", "Reset", "Reset">>
    /\ \E c \in DOMAIN screen.cells : screen.cells[c] = <<"lower_half", "blue", "Reset">>
    /\ \E c \in DOMAIN screen.cells : screen.cells[c] = <<"upper_half", "red", "Reset">>
    /\ \E c \in DOMAIN screen.cells : screen.cells[c] = <<"upper_half", "red", "blue">>

\* the runs a command list prints: for each Print, in order, where the cursor
\* stood, how many glyphs, and the glyph with the colours then current
RECURSIVE Emitted(_, _)
Emitted(term, cmds) ==
    IF cmds = <<>> THEN <<>>
    ELSE (IF Head(cmds)[1] = "Print"
          THEN <<[x |-> term.x, y |-> term.y, len |-> Head(cmds)[2],
                  content |-> <<Head(cmds)[4], term.fg, term.bg>>]>>
          ELSE <<>>)
         \o Emitted(apply(term, Head(cmds)), Tail(cmds))

RowRuns(runs, y) ==
    LET InRow(e) == e.y = y
    IN  SelectSeq(runs, InRow)

RECURSIVE SumLens(_)
SumLens(runs) == IF runs = <<>> THEN 0 ELSE Head(runs).len + SumLens(Tail(runs))

\* the tile of a position drawn one styled glyph per column
PerColumn(n, isz, px, t, index) ==
    LET width == isz \div n
        height == width \div 2
        left == (index % n) * width
        top == (index \div n) * height
    IN  Flatten([r \in 1 .. height |->
            <<MoveTo(left, top + r - 1)>>
            \o Flatten([c \in 1 .. width |->
                    LET pair == PixelPair(n, isz, px, t[index], r - 1, c - 1)
                    IN  run_commands(pair[1], pair[2], 1)])
            \o <<ResetColor>>])

StaleTerminal(isz) ==
    terminal([c \in Cells(isz, isz \div 2) |-> <<"stale", "Reset", "Reset">>])

\* C16: for every row of a tile other than the blank, the runs draw_tile
\* prints start at the left column of the cell, follow one another without
\* gap, have lengths summing to the cell width, differ from their neighbour
\* in glyph or colours (so in the pixel pair), and are as many as the row has
\* changes of pixel pair plus one: equal neighbouring columns are merged.  The
\* cells of the terminal end up exactly as when one glyph is printed per
\* column.
C16_CoalescingNeutral ==
    (op = "draw_tile" /\ tiles[drawn[1]] # blank_tile_num(board_size)) =>
        LET n == board_size
            index == drawn[1]
            width == img_size \div n
            height == width \div 2
            left == (index % n) * width
            top == (index \div n) * height
            runs == Emitted(terminal(<<>>), out)
        IN  /\ \A r \in 0 .. (height - 1) :
                   LET rr == RowRuns(runs, top + r)
                       changes == { c \in 0 .. (width - 2) :
                                      PixelPair(n, img_size, img_pixels, tiles[index], r, c)
                                      # PixelPair(n, img_size, img_pixels, tiles[index], r, c + 1) }
                   IN  /\ SumLens(rr) = width
                       /\ rr[1].x = left
                       /\ \A i \in 1 .. Len(rr) : rr[i].len >= 1
                       /\ \A i \in 1 .. (Len(rr) - 1) :
                              /\ rr[i + 1].x = rr[i].x + rr[i].len
                              /\ rr[i + 1].content # rr[i].content
                       /\ Len(rr) = Cardinality(changes) + 1
            /\ \A i \in 1 .. Len(runs) : runs[i].y \in top .. (top + height - 1)
            /\ screen.cells =
                   apply_all(StaleTerminal(img_size),
                             PerColumn(n, img_size, img_pixels, tiles, index)).cells

C16_Witness ==
    /\ op = "draw_tile"
    /\ tiles[drawn[1]] \notin {blank_tile_num(board_size), drawn[1]}
    /\ img_size = 8
    /\ LET rr == RowRuns(Emitted(terminal(<<>>), out), 0)
       IN  /\ Len(rr) = 3
           /\ rr[1].len = 2
           /\ rr[2].content = <<"lower_half", "red", "Reset">>

\* the character cells a command list prints on
CellsWritten(cmds) == DOMAIN apply_all(terminal(<<>>), cmds).cells

FlushCount(cmds) == Cardinality({ k \in 1 .. Len(cmds) : cmds[k] = Flush })

\* C17: a move_and_draw_tiles call that moved passes to draw_tile exactly the
\* two positions move_tiles returned, the old position of the blank and then
\* its new one, writes on the cells of those two positions only and flushes
\* once, after the drawing; a call that did not move queues nothing and does
\* not flush.  draw passes every position 0 .. board_size^2 - 1 to draw_tile
\* once, in increasing order, and does not flush.
C17_RedrawTwoCells ==
    /\ (op = "move_and_draw_tiles" /\ pc # "exit" /\ ret # None) =>
           /\ drawn = <<ret[1], ret[2]>>
           /\ ret[1] = position(old_tiles, blank_tile_num(board_size))
           /\ ret[2] = position(tiles, blank_tile_num(board_size))
           /\ ret[1] # ret[2]
           /\ CellsWritten(out) = CellRect(board_size, img_size, ret[1])
                                      \cup CellRect(board_size, img_size, ret[2])
           /\ FlushCount(out) = 1
           /\ out[Len(out)] = Flush
    /\ (op = "move_and_draw_tiles" /\ ret = None) =>
           /\ drawn = <<>>
           /\ out = <<>>
           /\ tiles = old_tiles
           /\ pc # "exit"
    /\ (op = "draw" /\ pc # "exit") =>
           /\ Len(drawn) = board_size * board_size
           /\ \A k \in 1 .. Len(drawn) : drawn[k] = k - 1
           /\ CellsWritten(out) = Cells(img_size, img_size \div 2)
           /\ FlushCount(out) = 0

C17_Witness ==
    /\ op = "move_and_draw_tiles"
    /\ pc = "loop"
    /\ board_size = 3
    /\ drawn = <<4, 5>>
    /\ nread = 2
    /\ FlushCount(out) = 1

\* the terminal after setup_terminal has cleared it and draw has drawn t
FullDraw(n, isz, px, t) ==
    apply_all(terminal([c \in Cells(isz, isz \div 2) |-> <<" ", "Reset", "Reset">>]),
              draw_tiles(n, isz, px, t, draw(n)))

\* C20: the cells draw_tile writes for different positions are disjoint and
\* lie within img_size columns and img_size / 2 rows; and once draw has run,
\* after any number of move_and_draw_tiles calls, every cell of the terminal
\* shows what a draw of the current tiles on a cleared terminal shows: for
\* each position, the glyphs of the tile it holds.
C20_IncrementalEqualsFull ==
    pc \in {"loop", "finish"} =>
        \A n \in {board_size} :
        \A Written \in {[i \in Positions(n) |->
                            CellsWritten(draw_tile(n, img_size, img_pixels, tiles, i))]} :
            /\ \A i \in Positions(n) :
                   /\ Written[i] \subseteq Cells(img_size, img_size \div 2)
                   /\ \A j \in Positions(n) : i # j => Written[i] \cap Written[j] = {}
            /\ screen.cells = FullDraw(n, img_size, img_pixels, tiles).cells
            /\ \A i \in Positions(n) : \A c \in CellRect(n, img_size, i) :
                   screen.cells[c] =
                       IF tiles[i] = blank_tile_num(n) THEN <<" ", "Reset", "Reset">>
                       ELSE CellOf(PixelPair(n, img_size, img_pixels, tiles[i],
                                             c[2] % ((img_size \div n) \div 2),
                                             c[1] % (img_size \div n)))

C20_Witness ==
    /\ pc = "loop"
    /\ op = "move_and_draw_tiles"
    /\ nread = MaxMoves
    /\ board_size = 3
    /\ ret # None
    /\ tiles # old_tiles
    /\ \E c \in DOMAIN screen.cells : screen.cells[c][1] = "upper_half"
    /\ \E c \in DOMAIN screen.cells : screen.cells[c][1] = "lower_half"

\* C19: every board main is handed satisfies is_solvable and so does every
\* board reached from it by move_tiles calls, whatever the direction, legal
\* or not, for even and odd board_size: the predicate held before each call
\* and holds after it.
C19_SolvablePreserved ==
    pc = "ready" =>
        /\ is_solvable(board_size, tiles)
        /\ op = "move_tiles" =>
              /\ is_solvable(board_size, old_tiles)
              /\ move_tiles(board_size, old_tiles, direction).tiles = tiles

C19_Witness ==
    /\ pc = "ready"
    /\ op = "move_tiles"
    /\ board_size = 2
    /\ direction = "Down"
    /\ ret # None
    /\ inversions(board_size, tiles) % 2 = 1
    /\ inversions(board_size, old_tiles) % 2 = 0

\* build has returned a Board or an Err
Returned == build_ret \in {"Ok", "n is too large", "image error"}

\* C18: for every board_size >= 1 and every terminal size, build returns a
\* board or an error in the end: the doubling loop exits and, with shuffles
\* that yield an accepted permutation when repeated for ever, so does the
\* rejection loop of generate_tiles.
C18_BuildTerminates ==
    (board_size >= 1) => <>Returned

\* the same on the terminals whose rows line 181 computes without overflow
BuildTerminatesWithoutOverflow ==
    (board_size >= 1 /\ ~max_img_size_overflows(term_size)) => <>Returned

\* with board_size 0 the doubling loop never exits
BuildTerminatesForZero ==
    (board_size = 0 /\ ~max_img_size_overflows(term_size)) => <>Returned

====
